---- MODULE Spec2Model ----
(***************************************************************************)
(* Model of the todo-workshop backend (Express + Prisma + JWT) and of the  *)
(* session part of its React frontend.                                     *)
(*                                                                         *)
(* A handler runs synchronously up to its first await, so one action is    *)
(* the arrival of a request (auth gate, validation, first query issued)    *)
(* and one action is each database query together with the continuation    *)
(* that runs on its result.  Requests of different clients interleave at   *)
(* these points.                                                           *)
(***************************************************************************)
EXTENDS Integers, Sequences, FiniteSets, TLC

\* ----------------------------------------------------------------- state
VARIABLES
    users,     \* table users: sequence of rows, the id is the index
    todos,     \* table todos: set of rows
    todoSeq,   \* autoincrement sequence of todos.id: the last id handed out
    now,       \* the server clock, in hours
    issued,    \* every token a signup or login has returned so far
    req,       \* per connection: the request in flight or its response
    session,   \* frontend: AuthProvider state { token, user }
    storage,   \* frontend: localStorage { token, user }
    ui         \* frontend: AuthProvider loading, TodoList state, calls

\* ---------------------------------------------------------------- bounds
MaxUsers == 2      \* accounts that can be stored
MaxTodos == 2      \* todo ids the autoincrement sequence can hand out
MaxReq   == 2      \* requests in flight at the same time
MaxTicks == 3      \* clock ticks

\* ------------------------------------------------------ program constants
expiresIn == 24    \* hours: jwt.sign(..., { expiresIn: '24h' })
minPasswordLength == 6
bcryptRounds == 10
bcryptKeyBytes == 72    \* bcryptjs: the key schedule reads 18 words of 4 bytes

TickHours == expiresIn \div 2
MaxNow    == MaxTicks * TickHours

JWT_SECRET == "JWT_SECRET"
AttackerKey == "attacker-key"
\* process.env.JWT_SECRET of a server started without it: undefined.
NoSecret == ""

EmailPool == <<"a@x", "A@x", "b@x", "c@x", "d@x">>
Emails    == {EmailPool[i] : i \in 1..MaxUsers}
NoEmail   == ""                          \* a missing or empty email field
Passwords == {"secret", "hunter22"}
ShortPassword == "12345"
NoPassword == ""
\* Two passwords that differ only after their 72nd byte.
LongPassword ==
    "0123456789012345678901234567890123456789012345678901234567890123456789ab"
LongerPassword == LongPassword \o "c"
Salts     == {1, 2}

UserIds == 1..MaxUsers
TodoIds == 1..MaxTodos
ReqIds  == 1..MaxReq
NoUser  == 0
NaN     == -1

\* ------------------------------------------------------------- bcryptjs
\* The bytes of the password that enter the Blowfish key schedule: bcryptjs
\* cycles the key over the 18 words of the P-array and reads no further.
BcryptKey(password) ==
    IF Len(password) <= bcryptKeyBytes
    THEN password
    ELSE SubSeq(password, 1, bcryptKeyBytes)

\* A bcrypt whose digest depended on every byte of the password.
BcryptHashWhole(password, salt) ==
    [rounds |-> bcryptRounds, salt |-> salt, digest |-> <<salt, password>>]

\* bcrypt.hash(password, 10): the hash string embeds cost, salt and digest.
BcryptHash(password, salt) ==
    [rounds |-> bcryptRounds, salt |-> salt,
     digest |-> <<salt, BcryptKey(password)>>]

\* bcrypt.compare(password, hash): re-hash with the embedded salt, compare.
BcryptCompare(password, hash) ==
    BcryptHash(password, hash.salt).digest = hash.digest

\* ---------------------------------------------------------- jsonwebtoken
NoPayload == [userId |-> NoUser, iat |-> 0, exp |-> 0]
HMAC(key, payload) == [key |-> key, payload |-> payload]
NoSig == HMAC("", NoPayload)

\* A word of a header: a space, the scheme, a string that is no JWT, a JWT.
Word(kind, payload, sig) == [kind |-> kind, payload |-> payload, sig |-> sig]
SP      == Word("space", NoPayload, NoSig)
Bearer  == Word("Bearer", NoPayload, NoSig)
Garbage == Word("garbage", NoPayload, NoSig)
Extra   == Word("extra", NoPayload, NoSig)

\* jwt.sign({ userId }, secret, { expiresIn: '24h' }) at time t
JwtSign(userId, secret, t) ==
    LET payload == [userId |-> userId, iat |-> t, exp |-> t + expiresIn]
    IN  Word("jwt", payload, HMAC(secret, payload))

\* The same token with its payload edited and the signature left as it was.
Tamper(tok, userId) ==
    Word("jwt", [tok.payload EXCEPT !.userId = userId], tok.sig)

\* A token that outlives the original: the exp claim pushed forward.
Prolong(tok) ==
    Word("jwt", [tok.payload EXCEPT !.exp = MaxNow + expiresIn], tok.sig)

\* JwtVerify with the expiry test off by one: still valid at exp itself.
JwtVerifyLate(segment, secret, t) ==
    IF Len(segment) # 1 \/ segment[1].kind # "jwt"
    THEN [err |-> "jwt malformed", decoded |-> NoPayload]
    ELSE IF segment[1].sig # HMAC(secret, segment[1].payload)
    THEN [err |-> "invalid signature", decoded |-> NoPayload]
    ELSE IF t > segment[1].payload.exp
    THEN [err |-> "jwt expired", decoded |-> NoPayload]
    ELSE [err |-> "", decoded |-> segment[1].payload]

\* jwt.verify(token, secret, callback): err is "" on success.
\* A segment is the string between two spaces, a sequence of words.
JwtVerify(segment, secret, t) ==
    IF Len(segment) # 1 \/ segment[1].kind # "jwt"
    THEN [err |-> "jwt malformed", decoded |-> NoPayload]
    ELSE IF segment[1].sig # HMAC(secret, segment[1].payload)
    THEN [err |-> "invalid signature", decoded |-> NoPayload]
    ELSE IF t >= segment[1].payload.exp
    THEN [err |-> "jwt expired", decoded |-> NoPayload]
    ELSE [err |-> "", decoded |-> segment[1].payload]

\* ------------------------------------------------------- String.split(' ')
RECURSIVE SplitFrom(_, _, _)
SplitFrom(chars, i, cur) ==
    IF i > Len(chars) THEN <<cur>>
    ELSE IF chars[i] = SP THEN <<cur>> \o SplitFrom(chars, i + 1, <<>>)
    ELSE SplitFrom(chars, i + 1, Append(cur, chars[i]))

Split(chars) == SplitFrom(chars, 1, <<>>)

\* A request header: absent (undefined) or a string.
NoHeader == [present |-> FALSE, chars |-> <<>>]
Header(chars) == [present |-> TRUE, chars |-> chars]

\* ExtractToken insisting on exactly two segments.
ExtractTokenExactlyTwo(authHeader) ==
    IF ~authHeader.present \/ authHeader.chars = <<>>
    THEN [truthy |-> FALSE, segment |-> <<>>]
    ELSE LET segs == Split(authHeader.chars)
         IN  IF Len(segs) # 2
             THEN [truthy |-> FALSE, segment |-> <<>>]
             ELSE [truthy |-> segs[2] # <<>>, segment |-> segs[2]]

\* const token = authHeader && authHeader.split(' ')[1];
\* The result is falsy when the header is undefined or empty, when there is
\* no second segment, and when the second segment is the empty string.
ExtractToken(authHeader) ==
    IF ~authHeader.present \/ authHeader.chars = <<>>
    THEN [truthy |-> FALSE, segment |-> <<>>]
    ELSE LET segs == Split(authHeader.chars)
         IN  IF Len(segs) < 2
             THEN [truthy |-> FALSE, segment |-> <<>>]
             ELSE [truthy |-> segs[2] # <<>>, segment |-> segs[2]]

\* ------------------------------------------------------ authenticateToken
\* The gate refusing a token once a newer one was issued to its account.
\* (issued is the state variable declared below.)
authenticateTokenNewestOnly(authHeader, t) ==
    LET token == ExtractToken(authHeader)
        v     == JwtVerify(token.segment, JWT_SECRET, t)
        superseded ==
            \E x \in issued : /\ x.payload.userId = v.decoded.userId
                              /\ x.payload.iat > v.decoded.iat
    IN  IF ~token.truthy
        THEN [status |-> 401, error |-> "Access token required",
              verified |-> FALSE, verifyErr |-> "", userId |-> NoUser,
              next |-> FALSE]
        ELSE IF v.err # "" \/ superseded
        THEN [status |-> 403, error |-> "Invalid or expired token",
              verified |-> TRUE,
              verifyErr |-> IF v.err # "" THEN v.err ELSE "revoked",
              userId |-> NoUser, next |-> FALSE]
        ELSE [status |-> 0, error |-> "",
              verified |-> TRUE, verifyErr |-> "", userId |-> v.decoded.userId,
              next |-> TRUE]

\* The gate decoding the payload without checking signature or expiry
\* (jwt.decode in place of jwt.verify).
authenticateTokenDecodeOnly(authHeader, t) ==
    LET token == ExtractToken(authHeader)
        v     == JwtVerify(token.segment, JWT_SECRET, t)
    IN  IF ~token.truthy
        THEN [status |-> 401, error |-> "Access token required",
              verified |-> FALSE, verifyErr |-> "", userId |-> NoUser,
              next |-> FALSE]
        ELSE IF v.err = "jwt malformed"
        THEN [status |-> 403, error |-> "Invalid or expired token",
              verified |-> TRUE, verifyErr |-> v.err, userId |-> NoUser,
              next |-> FALSE]
        ELSE [status |-> 0, error |-> "",
              verified |-> TRUE, verifyErr |-> "",
              userId |-> token.segment[1].payload.userId, next |-> TRUE]

\* The gate telling an expired token apart from an invalid one.
authenticateTokenTellsExpired(authHeader, t) ==
    LET token == ExtractToken(authHeader)
        v     == JwtVerify(token.segment, JWT_SECRET, t)
    IN  IF ~token.truthy
        THEN [status |-> 401, error |-> "Access token required",
              verified |-> FALSE, verifyErr |-> "", userId |-> NoUser,
              next |-> FALSE]
        ELSE IF v.err = "jwt expired"
        THEN [status |-> 401, error |-> "Token expired",
              verified |-> TRUE, verifyErr |-> v.err, userId |-> NoUser,
              next |-> FALSE]
        ELSE IF v.err # ""
        THEN [status |-> 403, error |-> "Invalid or expired token",
              verified |-> TRUE, verifyErr |-> v.err, userId |-> NoUser,
              next |-> FALSE]
        ELSE [status |-> 0, error |-> "",
              verified |-> TRUE, verifyErr |-> "", userId |-> v.decoded.userId,
              next |-> TRUE]

\* The outcome of the gate for one request at time t: the response it sends
\* (status 0 when it sends none), whether jwt.verify ran and with what
\* error, the value bound to req.userId, and whether next() was called.
authenticateToken(authHeader, t) ==
    LET token == ExtractToken(authHeader)
        v     == JwtVerify(token.segment, JWT_SECRET, t)
    IN  IF ~token.truthy
        THEN [status |-> 401, error |-> "Access token required",
              verified |-> FALSE, verifyErr |-> "", userId |-> NoUser,
              next |-> FALSE]
        ELSE IF v.err # ""
        THEN [status |-> 403, error |-> "Invalid or expired token",
              verified |-> TRUE, verifyErr |-> v.err, userId |-> NoUser,
              next |-> FALSE]
        ELSE [status |-> 0, error |-> "",
              verified |-> TRUE, verifyErr |-> "", userId |-> v.decoded.userId,
              next |-> TRUE]

\* ------------------------------------------------------- JavaScript values
Undefined == [type |-> "undefined", chars |-> <<>>]
Str(chars) == [type |-> "string", chars |-> chars]
Num       == [type |-> "number", chars |-> <<>>]

\* String.prototype.trim
RECURSIVE TrimStart(_)
TrimStart(s) == IF s # <<>> /\ Head(s) = " " THEN TrimStart(Tail(s)) ELSE s
RECURSIVE TrimEnd(_)
TrimEnd(s) ==
    IF s # <<>> /\ s[Len(s)] = " " THEN TrimEnd(SubSeq(s, 1, Len(s) - 1)) ELSE s
Trim(s) == TrimEnd(TrimStart(s))

\* parseInt(req.params.id): the leading decimal digits, NaN when none.
Digits == <<"0", "1", "2", "3", "4", "5", "6", "7", "8", "9">>
IsDigit(c) == \E d \in 1..10 : Digits[d] = c
DigitVal(c) == (CHOOSE d \in 1..10 : Digits[d] = c) - 1
RECURSIVE ParseDigits(_, _)
ParseDigits(s, acc) ==
    IF s = <<>> \/ ~IsDigit(Head(s)) THEN acc
    ELSE ParseDigits(Tail(s), acc * 10 + DigitVal(Head(s)))
parseInt(s) ==
    IF s = <<>> \/ ~IsDigit(Head(s)) THEN NaN ELSE ParseDigits(s, 0)

\* ------------------------------------------------------------------ state
vars == <<users, todos, todoSeq, now, issued, req, session, storage, ui>>
server == <<users, todos, todoSeq, now, issued, req>>

NoTodo == [id |-> 0, title |-> <<>>, completed |-> FALSE, userId |-> NoUser,
           createdAt |-> 0]
NoToken == Word("none", NoPayload, NoSig)
NoAccount == [id |-> NoUser, email |-> ""]

\* A connection: pc says where the handler stands ("idle": no request,
\* "done": the response has been sent), the request fields are what the
\* handler still holds, the response fields are what the caller receives.
Idle == [pc |-> "idle", op |-> "", header |-> NoHeader, userId |-> NoUser,
         todoId |-> 0, title |-> Undefined, completed |-> "undefined",
         bodyUserId |-> NoUser,
         email |-> "", password |-> "",
         verified |-> FALSE, verifyErr |-> "",
         status |-> 0, error |-> "", message |-> "", todo |-> NoTodo,
         list |-> <<>>, token |-> NoToken, user |-> NoAccount]

NoSession == [token |-> NoToken, user |-> NoAccount]

\* localStorage holds texts.  JSON.stringify(user) is the text of the
\* object's fields in order behind a "{"; JSON.parse gives the object back
\* and throws on any text not of that form.  getItem of an absent key
\* gives null (NoItem).
NoItem == <<>>
NotJson == <<"oops">>
JSONstringifyIdOnly(user) == <<"{", user.id, "">>
JSONstringify(user) == <<"{", user.id, user.email>>
JSONparses(text) == Len(text) = 3 /\ text[1] = "{"
JSONparse(text) == [id |-> text[2], email |-> text[3]]
NoStorage == [token |-> NoToken, user |-> NoItem]

\* A call of the API a TodoList handler is waiting for: the handler's
\* token, the todos of the render it was started from, the todo it is about.
NoCall == [kind |-> "none", token |-> NoToken, todos |-> <<>>, id |-> 0,
           completed |-> FALSE, title |-> <<>>]
\* AuthProvider's loading; TodoList's mounted-ness, loading (busy), todos
\* and error; the calls in flight.  The page has loaded with an empty
\* localStorage: the mount effect found nothing and ended loading.
NoUi == [loading |-> FALSE, mounted |-> FALSE, busy |-> FALSE,
         todos |-> <<>>, error |-> "",
         calls |-> [r \in ReqIds |-> NoCall]]

Init ==
    /\ users = <<>>
    /\ todos = {}
    /\ todoSeq = 0
    /\ now = 0
    /\ issued = {}
    /\ req = [r \in ReqIds |-> Idle]
    /\ session = NoSession
    /\ storage = NoStorage
    /\ ui = NoUi

InFlight(r) == req[r].pc \notin {"idle", "done"}

\* prisma.user.findUnique({ where: { email } }): the id, NoUser when none.
FindUserByEmail(email) ==
    IF \E i \in 1..Len(users) : users[i].email = email
    THEN CHOOSE i \in 1..Len(users) : users[i].email = email
    ELSE NoUser

\* prisma.todo.findUnique({ where: { id } })
FindTodo(id) ==
    IF \E t \in todos : t.id = id
    THEN CHOOSE t \in todos : t.id = id
    ELSE NoTodo

\* A record with the fields of base, those of fields replaced.
With(base, fields) ==
    [f \in DOMAIN base |-> IF f \in DOMAIN fields THEN fields[f] ELSE base[f]]

\* res.status(status).json(...): the response of connection r is sent.
\* Of the request the record keeps the route, whether the gate verified and
\* for whom, the id in the path, and the credentials of a signup or login.
Respond(r, op, fields) ==
    req' = [req EXCEPT ![r] = With([Idle EXCEPT !.pc = "done", !.op = op,
                                                !.verified = req[r].verified,
                                                !.userId = req[r].userId,
                                                !.todoId = req[r].todoId,
                                                !.email = req[r].email,
                                                !.password = req[r].password],
                                   fields)]

\* The handler of connection r awaits its next query.
Continue(r, pc, fields) ==
    req' = [req EXCEPT ![r] = With([req[r] EXCEPT !.pc = pc], fields)]

\* A catch block that sends the message of the error it caught.
CaughtLeaks(op, err) == [status |-> 500, error |-> err]

\* catch (error) { console.error(...); res.status(500).json({ error: ... }) }:
\* each handler answers with its own fixed text, whatever was thrown.
Caught(op, err) ==
    [status |-> 500,
     error  |-> CASE op = "signup" -> "Something went wrong during signup"
                  [] op = "login"  -> "Something went wrong during login"
                  [] op = "list"   -> "Failed to fetch todos"
                  [] op = "get"    -> "Failed to fetch todo"
                  [] op = "post"   -> "Failed to create todo"
                  [] op = "put"    -> "Failed to update todo"
                  [] op = "delete" -> "Failed to delete todo"]

\* The caller has read the response: the connection is free again.
Retire(r) ==
    /\ req[r].pc = "done"
    /\ req' = [req EXCEPT ![r] = Idle]
    /\ UNCHANGED <<users, todos, todoSeq, now, issued, session, storage, ui>>

\* The clock advances.
Tick ==
    /\ now < MaxNow
    /\ now' = now + TickHours
    /\ UNCHANGED <<users, todos, todoSeq, issued, req, session, storage, ui>>

\* ------------------------------------------------------ POST /api/auth/signup
\* SignupValidate refusing a password of exactly the minimum length.
SignupValidateTooStrict(email, password) ==
    IF email = NoEmail \/ password = NoPassword
    THEN [status |-> 400, error |-> "Email and password are required"]
    ELSE IF Len(password) <= minPasswordLength
    THEN [status |-> 400, error |-> "Password must be at least 6 characters"]
    ELSE [status |-> 0, error |-> ""]

\* if (!email || !password), if (password.length < 6): an answer, or
\* (status 0) going on to the lookup.  An absent and an empty string are
\* both falsy; length counts the code units of the string.
SignupValidate(email, password) ==
    IF email = NoEmail \/ password = NoPassword
    THEN [status |-> 400, error |-> "Email and password are required"]
    ELSE IF Len(password) < minPasswordLength
    THEN [status |-> 400, error |-> "Password must be at least 6 characters"]
    ELSE [status |-> 0, error |-> ""]

\* Arrival: the handler validates the body and issues the lookup.
SignupArrive(r, emails, passwords) ==
    /\ req[r].pc = "idle"
    /\ \E email \in emails, password \in passwords :
         LET check == SignupValidate(email, password)
         IN  IF check.status # 0
             THEN Respond(r, "signup",
                          [status |-> check.status, error |-> check.error,
                           email |-> email, password |-> password])
             ELSE Continue(r, "findUnique",
                           [op |-> "signup", email |-> email,
                            password |-> password])
    /\ UNCHANGED <<users, todos, todoSeq, now, issued, session, storage, ui>>

\* SignupCheck without the test: the handler always goes on to create.
SignupCheckSkipped(existingUser) == [status |-> 0, error |-> ""]

\* What the handler does once findUnique has returned existingUser: an
\* answer, or (status 0) going on to hash and create.
SignupCheck(existingUser) ==
    IF existingUser # NoUser
    THEN [status |-> 400, error |-> "User already exists"]
    ELSE [status |-> 0, error |-> ""]

\* prisma.user.findUnique returns, the handler goes on to bcrypt.hash.
SignupFindUnique(r) ==
    /\ req[r].pc = "findUnique" /\ req[r].op = "signup"
    /\ LET check == SignupCheck(FindUserByEmail(req[r].email))
       IN  \/ Respond(r, "signup",
                      Caught("signup", "PrismaClientInitializationError"))
           \/ /\ check.status # 0
              /\ Respond(r, "signup", check)
           \/ /\ check.status = 0
              /\ Continue(r, "create", << >>)
    /\ UNCHANGED <<users, todos, todoSeq, now, issued, session, storage, ui>>

\* A users table without unique index on email.
UniqueViolationNever(email) == FALSE

\* email String @unique: inserting a row with a stored email (compared as
\* PostgreSQL compares text, case included) is refused.
UniqueViolation(email) == \E i \in 1..Len(users) : users[i].email = email

\* A create that writes the new account over the newest stored one.
CreateUserOverwriting(table, row) ==
    IF table = <<>> THEN <<row>> ELSE [table EXCEPT ![Len(table)] = row]

\* prisma.user.create({ data: { email, password: hashedPassword } }): one
\* row is inserted, its id the next of the sequence.
CreateUser(table, row) == Append(table, row)

\* jwt.sign(payload, secretOrPrivateKey, options) throws
\* 'secretOrPrivateKey must have a value' when the secret is undefined.
JwtSignThrows(secret) == secret = NoSecret

\* bcrypt.hash resolves, prisma.user.create runs, the token is signed with
\* process.env.JWT_SECRET (secret).  The unique index on users.email makes
\* create throw on a duplicate; a throw of jwt.sign comes after the create.
SignupCreateWith(r, salts, secret) ==
    /\ req[r].pc = "create" /\ req[r].op = "signup"
    /\ \/ /\ Respond(r, "signup",
                     Caught("signup", "PrismaClientInitializationError"))
          /\ UNCHANGED <<users, issued>>
       \/ /\ UniqueViolation(req[r].email)
          /\ Respond(r, "signup",
                     Caught("signup", "P2002"))
          /\ UNCHANGED <<users, issued>>
       \/ /\ ~UniqueViolation(req[r].email)
          /\ \E salt \in salts :
               LET hashedPassword == BcryptHash(req[r].password, salt)
                   id    == Len(users) + 1
                   token == JwtSign(id, secret, now)
               IN  /\ users' = CreateUser(users,
                                          [email |-> req[r].email,
                                           password |-> hashedPassword])
                   /\ IF JwtSignThrows(secret)
                      THEN /\ issued' = issued
                           /\ Respond(r, "signup",
                                Caught("signup",
                                       "secretOrPrivateKey must have a value"))
                      ELSE /\ issued' = issued \cup {token}
                           /\ Respond(r, "signup",
                                [status |-> 201,
                                 message |-> "User created successfully",
                                 token |-> token,
                                 user |-> [id |-> id,
                                           email |-> req[r].email]])
    /\ UNCHANGED <<todos, todoSeq, now, session, storage, ui>>

\* The handler on a server started with JWT_SECRET in its environment.
SignupCreate(r, salts) == SignupCreateWith(r, salts, JWT_SECRET)

\* ------------------------------------------------------- POST /api/auth/login
LoginArrive(r, emails, passwords) ==
    /\ req[r].pc = "idle"
    /\ \E email \in emails, password \in passwords :
         IF email = NoEmail \/ password = NoPassword
         THEN Respond(r, "login",
                      [status |-> 400,
                       error |-> "Email and password are required",
                       email |-> email, password |-> password])
         ELSE Continue(r, "findUnique", [op |-> "login", email |-> email,
                                         password |-> password])
    /\ UNCHANGED <<users, todos, todoSeq, now, issued, session, storage, ui>>

\* LoginCheck telling the caller that the email has no account.
LoginCheckTellsUnknown(user, password) ==
    IF user = NoUser
    THEN [status |-> 404, error |-> "User not found"]
    ELSE IF ~BcryptCompare(password, users[user].password)
    THEN [status |-> 401, error |-> "Invalid credentials"]
    ELSE [status |-> 0, error |-> ""]

\* What the handler does once findUnique has returned user: if (!user) and
\* if (!isValidPassword) answer alike, otherwise (status 0) it signs a token.
LoginCheck(user, password) ==
    IF user = NoUser
    THEN [status |-> 401, error |-> "Invalid credentials"]
    ELSE IF ~BcryptCompare(password, users[user].password)
    THEN [status |-> 401, error |-> "Invalid credentials"]
    ELSE [status |-> 0, error |-> ""]

\* prisma.user.findUnique returns, bcrypt.compare resolves, the token is signed.
LoginFindUniqueWith(r, secret) ==
    /\ req[r].pc = "findUnique" /\ req[r].op = "login"
    /\ LET user  == FindUserByEmail(req[r].email)
           check == LoginCheck(user, req[r].password)
       IN  \/ /\ Respond(r, "login",
                         Caught("login", "PrismaClientInitializationError"))
              /\ issued' = issued
           \/ /\ check.status # 0
              /\ Respond(r, "login", check)
              /\ issued' = issued
           \/ /\ check.status = 0
              /\ LET token == JwtSign(user, secret, now)
                 IN  IF JwtSignThrows(secret)
                     THEN /\ issued' = issued
                          /\ Respond(r, "login",
                               Caught("login",
                                      "secretOrPrivateKey must have a value"))
                     ELSE /\ issued' = issued \cup {token}
                          /\ Respond(r, "login",
                                [status |-> 200,
                                 message |-> "Login successful",
                                 token |-> token,
                                 user |-> [id |-> user,
                                           email |-> users[user].email]])
    /\ UNCHANGED <<users, todos, todoSeq, now, session, storage, ui>>

\* The handler on a server started with JWT_SECRET in its environment.
LoginFindUnique(r) == LoginFindUniqueWith(r, JWT_SECRET)

\* --------------------------------------------------- what a client can send
\* Tokens a caller can put in a header besides those the server returned:
\* edits of them, tokens signed with another key, and a string that is no JWT.
ForgedTokens ==
    {Tamper(t, u) : t \in issued, u \in UserIds}
      \cup {Prolong(t) : t \in issued}
      \cup {JwtSign(u, AttackerKey, now) : u \in UserIds}
      \cup {Garbage}

\* Authorization: Bearer <token>, as the frontend's api.js builds it.
BearerHeader(t) == Header(<<Bearer, SP, t>>)

\* The headers of well-behaved clients and of one that has no valid token.
PlainHeaders ==
    {NoHeader, BearerHeader(Garbage)} \cup {BearerHeader(t) : t \in issued}

\* Every header: forged tokens, and headers of another shape.
AllHeaders ==
    PlainHeaders
      \cup {BearerHeader(t) : t \in ForgedTokens}
      \cup {Header(<<>>), Header(<<Bearer>>), Header(<<Bearer, SP>>)}
      \cup {Header(<<t>>) : t \in issued}
      \cup {Header(<<Bearer, SP, SP, t>>) : t \in issued}
      \cup {Header(<<Bearer, SP, t, SP, Extra>>) : t \in issued}
      \cup {Header(<<Garbage, SP, t>>) : t \in issued}

\* req.params.id
Params == {<<Digits[i + 1]>> : i \in 1..MaxTodos} \cup {<<"x">>, <<"1", "x">>}

\* req.body.title
Titles == {Undefined, Num, Str(<<" ">>), Str(<<" ", "a">>), Str(<<"b">>)}

\* req.body.completed
Completeds == {"undefined", "true", "false"}

\* --------------------------------------------- router.use(authenticateToken)
\* The gate answers the request itself: next() is not called.
GateRejects(r, op, header) ==
    LET g == authenticateToken(header, now)
    IN  /\ ~g.next
        /\ Respond(r, op, [header |-> header, verified |-> g.verified,
                           verifyErr |-> g.verifyErr, status |-> g.status,
                           error |-> g.error])

\* The gate calls next(): the handler starts with req.userId bound.
GateAdmits(header) == authenticateToken(header, now).next

\* The handler answers before its first await.
RespondSync(r, op, header, status, error) ==
    Respond(r, op, [header |-> header, verified |-> TRUE, status |-> status,
                    error |-> error])

\* The handler issues its first query and awaits it.
Await(r, op, header, pc, fields) ==
    LET g == authenticateToken(header, now)
    IN  req' = [req EXCEPT ![r] =
                  With([Idle EXCEPT !.pc = pc, !.op = op, !.header = header,
                                    !.verified = g.verified,
                                    !.userId = g.userId], fields)]

\* ------------------------------------------------------------ GET /api/todos
ListArrive(r, headers) ==
    /\ req[r].pc = "idle"
    /\ \E header \in headers :
         \/ GateRejects(r, "list", header)
         \/ /\ GateAdmits(header)
            /\ Await(r, "list", header, "findMany", << >>)
    /\ UNCHANGED <<users, todos, todoSeq, now, issued, session, storage, ui>>

\* orderBy: { createdAt: 'desc' }; rows of equal createdAt come in any order.
RECURSIVE Orderings(_)
Orderings(S) ==
    IF S = {} THEN {<<>>}
    ELSE UNION {{<<t>> \o rest : rest \in Orderings(S \ {t})} :
                  t \in {x \in S : \A y \in S : y.createdAt <= x.createdAt}}

\* A findMany without where clause.
ListWhereAll(userId) == todos

\* where: { userId: req.userId }
ListWhere(userId) == {t \in todos : t.userId = userId}

\* prisma.todo.findMany returns; res.json(todos).
ListFindMany(r) ==
    /\ req[r].pc = "findMany" /\ req[r].op = "list"
    /\ \/ Respond(r, "list",
                  Caught("list", "PrismaClientInitializationError"))
       \/ \E rows \in Orderings(ListWhere(req[r].userId)) :
            Respond(r, "list", [status |-> 200, list |-> rows,
                                header |-> req[r].header])
    /\ UNCHANGED <<users, todos, todoSeq, now, issued, session, storage, ui>>

\* -------------------------------------------------------- GET /api/todos/:id
GetArrive(r, headers, params) ==
    /\ req[r].pc = "idle"
    /\ \E header \in headers, param \in params :
         \/ GateRejects(r, "get", header)
         \/ /\ GateAdmits(header)
            /\ IF parseInt(param) = NaN
               THEN Respond(r, "get",
                            [header |-> header, verified |-> TRUE,
                             todoId |-> NaN, status |-> 400,
                             error |-> "Invalid todo ID"])
               ELSE Await(r, "get", header, "findUnique",
                          [todoId |-> parseInt(param)])
    /\ UNCHANGED <<users, todos, todoSeq, now, issued, session, storage, ui>>

\* What the handler answers once findUnique has returned todo.
GetAnswer(todo, userId) ==
    IF todo = NoTodo
    THEN [status |-> 404, error |-> "Todo not found"]
    ELSE IF todo.userId # userId
    THEN [status |-> 403, error |-> "Access denied"]
    ELSE [status |-> 200, todo |-> todo]

GetFindUnique(r) ==
    /\ req[r].pc = "findUnique" /\ req[r].op = "get"
    /\ \/ Respond(r, "get",
                  Caught("get", "PrismaClientInitializationError"))
       \/ Respond(r, "get", GetAnswer(FindTodo(req[r].todoId), req[r].userId))
    /\ UNCHANGED <<users, todos, todoSeq, now, issued, session, storage, ui>>

\* ----------------------------------------------------------- POST /api/todos
\* Rows the create queries in flight will still take from the sequence.
PendingCreates ==
    Cardinality({r \in ReqIds : req[r].pc = "create" /\ req[r].op = "post"})

\* The body may carry a userId of its own (owners); the handler reads
\* req.body.title only.
PostArrive(r, headers, titles, owners) ==
    /\ req[r].pc = "idle"
    /\ todoSeq + PendingCreates < MaxTodos
    /\ \E header \in headers, title \in titles, owner \in owners :
         \/ GateRejects(r, "post", header)
         \/ /\ GateAdmits(header)
            /\ IF title = Undefined
                  \/ (title.type = "string" /\ Trim(title.chars) = <<>>)
               THEN Respond(r, "post",
                            [header |-> header, verified |-> TRUE,
                             title |-> title, status |-> 400,
                             error |-> "Title is required"])
               ELSE IF title.type # "string"
               THEN Respond(r, "post",
                            Caught("post", "TypeError") @@
                            [header |-> header, verified |-> TRUE,
                             title |-> title])
               ELSE Await(r, "post", header, "create",
                          [title |-> title, bodyUserId |-> owner])
    /\ UNCHANGED <<users, todos, todoSeq, now, issued, session, storage, ui>>

\* A sequence that hands out the lowest id no stored todo has.
NextTodoIdLowestFree ==
    CHOOSE id \in 1..(todoSeq + 1) :
      /\ \A t \in todos : t.id # id
      /\ \A lower \in 1..(id - 1) : \E t \in todos : t.id = lower

\* id Int @id @default(autoincrement()): the sequence never goes back.
NextTodoId == todoSeq + 1

\* PostData taking the owner from the body when the body names one.
PostDataOwnerFromBody(body, userId) ==
    [title  |-> Trim(body.title.chars),
     userId |-> IF body.userId # NoUser THEN body.userId ELSE userId]

\* PostData storing the title as it was sent.
PostDataUntrimmed(body, userId) ==
    [title |-> body.title.chars, userId |-> userId]

\* data: { title: title.trim(), userId: req.userId }
PostData(body, userId) ==
    [title |-> Trim(body.title.chars), userId |-> userId]

\* prisma.todo.create returns: id from the sequence, completed defaults to
\* false, createdAt to the time of the insert.
PostCreate(r) ==
    /\ req[r].pc = "create" /\ req[r].op = "post"
    /\ \/ /\ Respond(r, "post",
                     Caught("post", "PrismaClientInitializationError"))
          /\ UNCHANGED <<todos, todoSeq>>
       \/ LET data == PostData([title  |-> req[r].title,
                                userId |-> req[r].bodyUserId], req[r].userId)
              todo == [id |-> NextTodoId, title |-> data.title,
                       completed |-> FALSE, userId |-> data.userId,
                       createdAt |-> now]
          IN  /\ todoSeq' = todoSeq + 1
              /\ todos' = todos \cup {todo}
              /\ Respond(r, "post",
                         [status |-> 201, todo |-> todo,
                          header |-> req[r].header, title |-> req[r].title,
                          bodyUserId |-> req[r].bodyUserId])
    /\ UNCHANGED <<users, now, issued, session, storage, ui>>

\* -------------------------------------------------------- PUT /api/todos/:id
\* The body may carry a userId of its own (owners); the handler reads
\* req.body.title and req.body.completed only.
PutArrive(r, headers, params, titles, completeds, owners) ==
    /\ req[r].pc = "idle"
    /\ \E header \in headers, param \in params, title \in titles,
          completed \in completeds, owner \in owners :
         \/ GateRejects(r, "put", header)
         \/ /\ GateAdmits(header)
            /\ IF parseInt(param) = NaN
               THEN Respond(r, "put",
                            [header |-> header, verified |-> TRUE,
                             todoId |-> NaN, status |-> 400,
                             error |-> "Invalid todo ID"])
               ELSE Await(r, "put", header, "findUnique",
                          [todoId |-> parseInt(param), title |-> title,
                           completed |-> completed, bodyUserId |-> owner])
    /\ UNCHANGED <<users, todos, todoSeq, now, issued, session, storage, ui>>

\* PutCheck without the existence answer: a missing row is reported as denied.
PutCheckHidesMissing(existingTodo, userId) ==
    IF existingTodo = NoTodo \/ existingTodo.userId # userId
    THEN [status |-> 403, error |-> "Access denied"]
    ELSE [status |-> 0, error |-> ""]

\* PutCheck without the ownership comparison.
PutCheckAnyOwner(existingTodo, userId) ==
    IF existingTodo = NoTodo
    THEN [status |-> 404, error |-> "Todo not found"]
    ELSE [status |-> 0, error |-> ""]

\* What the handler does once findUnique has returned existingTodo: an
\* answer, or (status 0) going on to the update.
PutCheck(existingTodo, userId) ==
    IF existingTodo = NoTodo
    THEN [status |-> 404, error |-> "Todo not found"]
    ELSE IF existingTodo.userId # userId
    THEN [status |-> 403, error |-> "Access denied"]
    ELSE [status |-> 0, error |-> ""]

\* findUnique returns; the handler builds updateData and issues the update.
\* title.trim() throws when title is not a string.
PutFindUnique(r) ==
    /\ req[r].pc = "findUnique" /\ req[r].op = "put"
    /\ LET check == PutCheck(FindTodo(req[r].todoId), req[r].userId)
       IN  \/ Respond(r, "put",
                      Caught("put", "PrismaClientInitializationError"))
           \/ /\ check.status # 0
              /\ Respond(r, "put", check)
           \/ /\ check.status = 0
              /\ IF req[r].title.type = "number"
                 THEN Respond(r, "put",
                              Caught("put", "TypeError"))
                 ELSE Continue(r, "update",
                        [title |-> IF req[r].title = Undefined THEN Undefined
                                   ELSE Str(Trim(req[r].title.chars))])
    /\ UNCHANGED <<users, todos, todoSeq, now, issued, session, storage, ui>>

\* An update that replaces the whole todo: an absent field is reset.
ApplyUpdateReplacing(row, body) ==
    [row EXCEPT !.title = body.title.chars,
                !.completed = (body.completed = "true")]

\* An update that writes every field the body names, the owner included.
ApplyUpdateWholeBody(row, body) ==
    [row EXCEPT
       !.title = IF body.title = Undefined THEN @ ELSE body.title.chars,
       !.completed = IF body.completed = "undefined" THEN @
                     ELSE body.completed = "true",
       !.userId = IF body.userId = NoUser THEN @ ELSE body.userId]

\* updateData holds title and completed only when the body has them
\* (!== undefined); update writes the fields of updateData and no other.
ApplyUpdate(row, body) ==
    [row EXCEPT
       !.title = IF body.title = Undefined THEN @ ELSE body.title.chars,
       !.completed = IF body.completed = "undefined" THEN @
                     ELSE body.completed = "true"]

\* prisma.todo.update({ where: { id }, data: updateData }); it throws when
\* the row is gone.
PutUpdate(r) ==
    /\ req[r].pc = "update" /\ req[r].op = "put"
    /\ LET row == FindTodo(req[r].todoId)
           updatedTodo ==
               ApplyUpdate(row, [title     |-> req[r].title,
                                 completed |-> req[r].completed,
                                 userId    |-> req[r].bodyUserId])
       IN  \/ /\ Respond(r, "put",
                         Caught("put", "PrismaClientInitializationError"))
              /\ todos' = todos
           \/ /\ row = NoTodo
              /\ Respond(r, "put",
                         Caught("put", "P2025"))
              /\ todos' = todos
           \/ /\ row # NoTodo
              /\ todos' = (todos \ {row}) \cup {updatedTodo}
              /\ Respond(r, "put",
                         [status |-> 200, todo |-> updatedTodo,
                          header |-> req[r].header, title |-> req[r].title,
                          completed |-> req[r].completed,
                          bodyUserId |-> req[r].bodyUserId])
    /\ UNCHANGED <<users, todoSeq, now, issued, session, storage, ui>>

\* ----------------------------------------------------- DELETE /api/todos/:id
\* A delete that reports the todo it has just removed as not found.
DeleteAnswerNotFound == [status |-> 404, error |-> "Todo not found"]

\* res.json({ message: 'Todo deleted successfully' })
DeleteAnswer == [status |-> 200, message |-> "Todo deleted successfully"]

DeleteArrive(r, headers, params) ==
    /\ req[r].pc = "idle"
    /\ \E header \in headers, param \in params :
         \/ GateRejects(r, "delete", header)
         \/ /\ GateAdmits(header)
            /\ IF parseInt(param) = NaN
               THEN Respond(r, "delete",
                            [header |-> header, verified |-> TRUE,
                             todoId |-> NaN, status |-> 400,
                             error |-> "Invalid todo ID"])
               ELSE Await(r, "delete", header, "findUnique",
                          [todoId |-> parseInt(param)])
    /\ UNCHANGED <<users, todos, todoSeq, now, issued, session, storage, ui>>

\* DeleteCheck without the ownership comparison.
DeleteCheckAnyOwner(existingTodo, userId) ==
    IF existingTodo = NoTodo
    THEN [status |-> 404, error |-> "Todo not found"]
    ELSE [status |-> 0, error |-> ""]

\* What the handler does once findUnique has returned existingTodo: an
\* answer, or (status 0) going on to the delete.
DeleteCheck(existingTodo, userId) ==
    IF existingTodo = NoTodo
    THEN [status |-> 404, error |-> "Todo not found"]
    ELSE IF existingTodo.userId # userId
    THEN [status |-> 403, error |-> "Access denied"]
    ELSE [status |-> 0, error |-> ""]

DeleteFindUnique(r) ==
    /\ req[r].pc = "findUnique" /\ req[r].op = "delete"
    /\ LET check == DeleteCheck(FindTodo(req[r].todoId), req[r].userId)
       IN  \/ Respond(r, "delete",
                      Caught("delete", "PrismaClientInitializationError"))
           \/ /\ check.status # 0
              /\ Respond(r, "delete", check)
           \/ /\ check.status = 0
              /\ Continue(r, "delete", << >>)
    /\ UNCHANGED <<users, todos, todoSeq, now, issued, session, storage, ui>>

\* prisma.todo.delete({ where: { id } }); it throws when the row is gone.
DeleteDelete(r) ==
    /\ req[r].pc = "delete" /\ req[r].op = "delete"
    /\ LET row == FindTodo(req[r].todoId)
       IN  \/ /\ Respond(r, "delete",
                         Caught("delete", "PrismaClientInitializationError"))
              /\ todos' = todos
           \/ /\ row = NoTodo
              /\ Respond(r, "delete",
                         Caught("delete", "P2025"))
              /\ todos' = todos
           \/ /\ row # NoTodo
              /\ todos' = todos \ {row}
              /\ Respond(r, "delete", DeleteAnswer)
    /\ UNCHANGED <<users, todoSeq, now, issued, session, storage, ui>>

\* ------------------------------------------------- frontend: AuthContext.jsx
\* Auth.jsx handleSubmit: login(response.token, response.user) with the
\* response of a signup or login the server has answered with a token.  The
\* Auth screen is the one shown: loading is over and there is no user.
ClientLogin(r) ==
    /\ ~ui.loading /\ session.user = NoAccount
    /\ req[r].pc = "done" /\ req[r].op \in {"signup", "login"}
    /\ req[r].token # NoToken
    /\ session' = [token |-> req[r].token, user |-> req[r].user]
    /\ storage' = [token |-> req[r].token,
                   user |-> JSONstringify(req[r].user)]
    /\ UNCHANGED <<server, ui>>

\* logout(): clears the state and localStorage; no request is made.  With
\* user null AppContent unmounts the TodoList: its state is gone and what
\* its calls still deliver is set on no component.
ClientLogout ==
    /\ session # NoSession
    /\ session' = NoSession
    /\ storage' = NoStorage
    /\ ui' = [NoUi EXCEPT !.loading = ui.loading]
    /\ UNCHANGED server

\* A page refresh: a new AuthProvider is constructed (user null, token null,
\* loading true), localStorage stays.  The page is not left while a signup
\* or login it submitted is unanswered or unread.
Reload ==
    /\ \A r \in ReqIds : req[r].op \notin {"signup", "login"}
    /\ session' = NoSession
    /\ ui' = [NoUi EXCEPT !.loading = TRUE]
    /\ UNCHANGED <<server, storage>>

\* The mount effect of AuthProvider without its try/catch around the parse:
\* a stored text that does not parse is kept and restores nothing.
MountEffectKeepsBroken(store) ==
    IF store.token # NoToken /\ store.user # NoItem /\ JSONparses(store.user)
    THEN [session |-> [token |-> store.token,
                       user |-> JSONparse(store.user)],
          storage |-> store]
    ELSE [session |-> NoSession, storage |-> store]

\* The mount effect of AuthProvider: both keys stored and the user text
\* parses: both are restored; the parse throws: both keys are removed;
\* a key is missing: nothing is restored and nothing removed.
MountEffect(store) ==
    IF store.token # NoToken /\ store.user # NoItem
    THEN IF JSONparses(store.user)
         THEN [session |-> [token |-> store.token,
                            user |-> JSONparse(store.user)],
               storage |-> store]
         ELSE [session |-> NoSession, storage |-> NoStorage]
    ELSE [session |-> NoSession, storage |-> store]

\* useEffect(..., []) of AuthProvider, then setLoading(false).
Mount ==
    /\ ui.loading
    /\ session' = MountEffect(storage).session
    /\ storage' = MountEffect(storage).storage
    /\ ui' = [ui EXCEPT !.loading = FALSE]
    /\ UNCHANGED server

\* localStorage is written from outside the application (another version
\* of the page, the developer tools): the user text is replaced or a key
\* removed.
StorageEdit ==
    /\ storage # NoStorage
    /\ \/ storage' = [storage EXCEPT !.user = NotJson]
       \/ storage' = [storage EXCEPT !.user = NoItem]
       \/ storage' = [storage EXCEPT !.token = NoToken]
    /\ storage' # storage
    /\ UNCHANGED <<server, session, ui>>

\* --------------------------------------------------- frontend: TodoList.jsx
\* AppContent: loading ? "Loading..." : user ? <TodoList /> : <Auth />
Screen ==
    IF ui.loading THEN "Loading"
    ELSE IF session.user # NoAccount THEN "TodoList" ELSE "Auth"

FreeCall(r) == req[r].pc = "idle" /\ ui.calls[r].kind = "none"

\* response.ok of fetchWrapper
Ok(rec) == rec.status \in 200..299

\* fetchWrapper's throw: new Error(data.error || 'Something went wrong')
ErrorOf(rec) == IF rec.error # "" THEN rec.error ELSE "Something went wrong"

\* TodoList mounts (useState initial values) and its mount effect calls
\* fetchTodos: without a token it returns, else it sets loading and error
\* and calls getTodos(token).
TodoListMount(r) ==
    /\ Screen = "TodoList" /\ ~ui.mounted
    /\ IF session.token = NoToken
       THEN ui' = [ui EXCEPT !.mounted = TRUE, !.busy = TRUE]
       ELSE /\ FreeCall(r)
            /\ ui' = [ui EXCEPT !.mounted = TRUE, !.busy = TRUE,
                                !.error = "",
                                !.calls[r] = [NoCall EXCEPT
                                                !.kind = "fetch",
                                                !.token = session.token]]
    /\ UNCHANGED <<server, session, storage>>

\* getTodos(token): GET /api/todos with Authorization: Bearer <token>.
FetchSend(r) ==
    /\ ui.calls[r].kind = "fetch"
    /\ ListArrive(r, {BearerHeader(ui.calls[r].token)})

\* fetchTodos after the await: setTodos(data), or in the catch
\* setError(err.message); finally setLoading(false).  Nothing else is done
\* with a rejection.
FetchSettle(r) ==
    /\ ui.calls[r].kind = "fetch"
    /\ req[r].pc = "done" /\ req[r].op = "list"
    /\ req' = [req EXCEPT ![r] = Idle]
    /\ ui' = IF Ok(req[r])
             THEN [ui EXCEPT !.todos = req[r].list, !.busy = FALSE,
                             !.calls[r] = NoCall]
             ELSE [ui EXCEPT !.error = ErrorOf(req[r]), !.busy = FALSE,
                             !.calls[r] = NoCall]
    /\ UNCHANGED <<users, todos, todoSeq, now, issued, session, storage>>

\* The handlers of a rendered TodoList.  Each is the function of the render
\* it was clicked in: the todos it reads after its await are the todos of
\* that render (call.todos), whatever the component's state has become.
Rendered == Screen = "TodoList" /\ ui.mounted /\ ~ui.busy

Call(kind, id, completed, title) ==
    [kind |-> kind, token |-> session.token, todos |-> ui.todos, id |-> id,
     completed |-> completed, title |-> title]

\* [...todos] as a set, and the array operations of the handlers.
Shown(list) == {list[i] : i \in 1..Len(list)}
MapReplace(list, id, updatedTodo) ==
    [i \in 1..Len(list) |-> IF list[i].id = id THEN updatedTodo ELSE list[i]]
Filter(list, id) == SelectSeq(list, LAMBDA t : t.id # id)

\* const { todos } of the render the handler was created in.
BaseOf(call) == call.todos

\* handleCreateTodo up to its await: a blank title only sets the error;
\* without a token nothing happens; else createTodo(token, newTodoTitle).
CreateCall(r, titles) ==
    /\ Rendered
    /\ \E title \in titles :
         IF Trim(title) = <<>>
         THEN ui' = [ui EXCEPT !.error = "Please enter a todo title"]
         ELSE /\ session.token # NoToken /\ FreeCall(r)
              /\ ui' = [ui EXCEPT !.error = "",
                                  !.calls[r] = Call("create", 0, FALSE, title)]
    /\ UNCHANGED <<server, session, storage>>

\* createTodo: POST /api/todos with the token and { title }.
CreateSend(r) ==
    /\ ui.calls[r].kind = "create"
    /\ PostArrive(r, {BearerHeader(ui.calls[r].token)},
                  {Str(ui.calls[r].title)}, {NoUser})

\* handleCreateTodo after the await: setTodos([newTodo, ...todos]), or the
\* catch: setError.
CreateSettle(r) ==
    /\ ui.calls[r].kind = "create"
    /\ req[r].pc = "done" /\ req[r].op = "post"
    /\ req' = [req EXCEPT ![r] = Idle]
    /\ ui' = IF Ok(req[r])
             THEN [ui EXCEPT !.todos = <<req[r].todo>> \o BaseOf(ui.calls[r]),
                             !.calls[r] = NoCall]
             ELSE [ui EXCEPT !.error = ErrorOf(req[r]), !.calls[r] = NoCall]
    /\ UNCHANGED <<users, todos, todoSeq, now, issued, session, storage>>

\* handleToggleTodo(todo) up to its await, for a todo of the list:
\* updateTodo(token, todo.id, { completed: !todo.completed }).
ToggleCall(r) ==
    /\ Rendered /\ session.token # NoToken /\ FreeCall(r)
    /\ \E i \in 1..Len(ui.todos) :
         ui' = [ui EXCEPT !.error = "",
                          !.calls[r] = Call("toggle", ui.todos[i].id,
                                            ~ui.todos[i].completed, <<>>)]
    /\ UNCHANGED <<server, session, storage>>

\* updateTodo: PUT /api/todos/<id> with the token and { completed }.
ToggleSend(r) ==
    /\ ui.calls[r].kind = "toggle"
    /\ PutArrive(r, {BearerHeader(ui.calls[r].token)},
                 {<<Digits[ui.calls[r].id + 1]>>}, {Undefined},
                 {IF ui.calls[r].completed THEN "true" ELSE "false"},
                 {NoUser})

\* handleToggleTodo after the await:
\* setTodos(todos.map(t => t.id === todo.id ? updatedTodo : t)).
ToggleSettle(r) ==
    /\ ui.calls[r].kind = "toggle"
    /\ req[r].pc = "done" /\ req[r].op = "put"
    /\ req' = [req EXCEPT ![r] = Idle]
    /\ ui' = IF Ok(req[r])
             THEN [ui EXCEPT !.todos = MapReplace(BaseOf(ui.calls[r]),
                                                  ui.calls[r].id, req[r].todo),
                             !.calls[r] = NoCall]
             ELSE [ui EXCEPT !.error = ErrorOf(req[r]), !.calls[r] = NoCall]
    /\ UNCHANGED <<users, todos, todoSeq, now, issued, session, storage>>

\* handleDeleteTodo(id) up to its await: deleteTodo(token, id).
DeleteCall(r) ==
    /\ Rendered /\ session.token # NoToken /\ FreeCall(r)
    /\ \E i \in 1..Len(ui.todos) :
         ui' = [ui EXCEPT !.error = "",
                          !.calls[r] = Call("delete", ui.todos[i].id,
                                            FALSE, <<>>)]
    /\ UNCHANGED <<server, session, storage>>

\* deleteTodo: DELETE /api/todos/<id> with the token.
DeleteSend(r) ==
    /\ ui.calls[r].kind = "delete"
    /\ DeleteArrive(r, {BearerHeader(ui.calls[r].token)},
                    {<<Digits[ui.calls[r].id + 1]>>})

\* handleDeleteTodo after the await:
\* setTodos(todos.filter(t => t.id !== id)).
DeleteSettle(r) ==
    /\ ui.calls[r].kind = "delete"
    /\ req[r].pc = "done" /\ req[r].op = "delete"
    /\ req' = [req EXCEPT ![r] = Idle]
    /\ ui' = IF Ok(req[r])
             THEN [ui EXCEPT !.todos = Filter(BaseOf(ui.calls[r]),
                                              ui.calls[r].id),
                             !.calls[r] = NoCall]
             ELSE [ui EXCEPT !.error = ErrorOf(req[r]), !.calls[r] = NoCall]
    /\ UNCHANGED <<users, todos, todoSeq, now, issued, session, storage>>

\* ------------------------------------------------------------ specification
\* The whole system, every input.
Next ==
    \/ Tick
    \/ \E r \in ReqIds : Retire(r)
    \/ \E r \in ReqIds :
         SignupArrive(r, Emails \cup {NoEmail},
                      Passwords \cup {ShortPassword, NoPassword})
    \/ \E r \in ReqIds : SignupFindUnique(r)
    \/ \E r \in ReqIds : SignupCreate(r, Salts)
    \/ \E r \in ReqIds :
         LoginArrive(r, Emails \cup {NoEmail},
                     Passwords \cup {ShortPassword, NoPassword})
    \/ \E r \in ReqIds : LoginFindUnique(r)
    \/ \E r \in ReqIds : ListArrive(r, AllHeaders)
    \/ \E r \in ReqIds : ListFindMany(r)
    \/ \E r \in ReqIds : GetArrive(r, AllHeaders, Params)
    \/ \E r \in ReqIds : GetFindUnique(r)
    \/ \E r \in ReqIds : PostArrive(r, AllHeaders, Titles, UserIds \cup {NoUser})
    \/ \E r \in ReqIds : PostCreate(r)
    \/ \E r \in ReqIds :
         PutArrive(r, AllHeaders, Params, Titles, Completeds,
                   UserIds \cup {NoUser})
    \/ \E r \in ReqIds : PutFindUnique(r)
    \/ \E r \in ReqIds : PutUpdate(r)
    \/ \E r \in ReqIds : DeleteArrive(r, AllHeaders, Params)
    \/ \E r \in ReqIds : DeleteFindUnique(r)
    \/ \E r \in ReqIds : DeleteDelete(r)
    \/ \E r \in ReqIds : ClientLogin(r)
    \/ ClientLogout

Spec == Init /\ [][Next]_vars

\* ------------------------------------------------- the todo routes, in race
\* Two accounts have signed up at time 0 and hold their tokens.
InitTodos ==
    /\ users = << [email |-> EmailPool[1],
                   password |-> BcryptHash("secret", 1)],
                  [email |-> EmailPool[2],
                   password |-> BcryptHash("hunter22", 2)] >>
    /\ issued = {JwtSign(1, JWT_SECRET, 0), JwtSign(2, JWT_SECRET, 0)}
    /\ todos = {}
    /\ todoSeq = 0
    /\ now = 0
    /\ req = [r \in ReqIds |-> Idle]
    /\ session = NoSession
    /\ storage = NoStorage
    /\ ui = NoUi

RacePostTitles == {Undefined, Str(<<" ", "a">>)}
RacePutTitles == {Undefined, Str(<<"b">>)}
RaceCompleteds == {"undefined", "true"}
RaceParams == {<<Digits[i + 1]>> : i \in 1..MaxTodos} \cup {<<"x">>}

NextTodos ==
    \/ \E r \in ReqIds : Retire(r)
    \/ \E r \in ReqIds : ListArrive(r, PlainHeaders)
    \/ \E r \in ReqIds : ListFindMany(r)
    \/ \E r \in ReqIds : GetArrive(r, PlainHeaders, RaceParams)
    \/ \E r \in ReqIds : GetFindUnique(r)
    \/ \E r \in ReqIds : PostArrive(r, PlainHeaders, RacePostTitles, {NoUser})
    \/ \E r \in ReqIds : PostCreate(r)
    \/ \E r \in ReqIds :
         PutArrive(r, PlainHeaders, RaceParams, RacePutTitles, RaceCompleteds,
                   {NoUser})
    \/ \E r \in ReqIds : PutFindUnique(r)
    \/ \E r \in ReqIds : PutUpdate(r)
    \/ \E r \in ReqIds : DeleteArrive(r, PlainHeaders, RaceParams)
    \/ \E r \in ReqIds : DeleteFindUnique(r)
    \/ \E r \in ReqIds : DeleteDelete(r)

SpecTodos == InitTodos /\ [][NextTodos]_vars

\* --------------------------------------------------- the auth gate, in time
\* Accounts sign up and log in while the clock runs; every kind of header
\* is sent to a protected route; the frontend logs in and out.
GateConns == {1}
GatePasswords == {"secret"}
GateSalts == {1}

NextGate ==
    \/ Tick
    \/ \E r \in GateConns : Retire(r)
    \/ \E r \in GateConns : SignupArrive(r, Emails, GatePasswords)
    \/ \E r \in GateConns : SignupFindUnique(r)
    \/ \E r \in GateConns : SignupCreate(r, GateSalts)
    \/ \E r \in GateConns : LoginArrive(r, Emails, GatePasswords)
    \/ \E r \in GateConns : LoginFindUnique(r)
    \/ \E r \in GateConns : ListArrive(r, AllHeaders)
    \/ \E r \in GateConns : ListFindMany(r)
    \/ \E r \in GateConns : ClientLogin(r)
    \/ ClientLogout

SpecGate == Init /\ [][NextGate]_vars


\* ------------------------------------------------ signup and login, in race
NextAuth ==
    \/ \E r \in ReqIds : Retire(r)
    \/ \E r \in ReqIds :
         SignupArrive(r, Emails \cup {NoEmail},
                      Passwords \cup {ShortPassword, NoPassword})
    \/ \E r \in ReqIds : SignupFindUnique(r)
    \/ \E r \in ReqIds : SignupCreate(r, Salts)
    \/ \E r \in ReqIds :
         LoginArrive(r, Emails \cup {NoEmail},
                     Passwords \cup {ShortPassword, NoPassword})
    \/ \E r \in ReqIds : LoginFindUnique(r)

SpecAuth == Init /\ [][NextAuth]_vars


\* ------------------------------------------- signup, login, then the gate
\* Accounts sign up and log in with short and with long passwords, and the
\* tokens they are given are sent to a protected route.
RoundTripPasswords == {"secret", "hunter22", LongPassword, LongerPassword}

NextRoundTrip ==
    \/ \E r \in ReqIds : Retire(r)
    \/ \E r \in ReqIds : SignupArrive(r, Emails, RoundTripPasswords)
    \/ \E r \in ReqIds : SignupFindUnique(r)
    \/ \E r \in ReqIds : SignupCreate(r, GateSalts)
    \/ \E r \in ReqIds : LoginArrive(r, Emails, RoundTripPasswords)
    \/ \E r \in ReqIds : LoginFindUnique(r)
    \/ \E r \in ReqIds : ListArrive(r, PlainHeaders)
    \/ \E r \in ReqIds : ListFindMany(r)

SpecRoundTrip == Init /\ [][NextRoundTrip]_vars


\* ----------------------------------------------- the todo routes, one by one
\* One request at a time, with every kind of body and id, while time passes.
CrudConns == {1}
CrudTitles ==
    {Undefined, Num, Str(<<>>), Str(<<" ">>), Str(<<" ", "a">>),
     Str(<<"a", " ", "b", " ">>)}

NextCrud ==
    \/ Tick
    \/ \E r \in CrudConns : Retire(r)
    \/ \E r \in CrudConns : ListArrive(r, PlainHeaders)
    \/ \E r \in CrudConns : ListFindMany(r)
    \/ \E r \in CrudConns : GetArrive(r, PlainHeaders, Params)
    \/ \E r \in CrudConns : GetFindUnique(r)
    \/ \E r \in CrudConns :
         PostArrive(r, PlainHeaders, CrudTitles, UserIds \cup {NoUser})
    \/ \E r \in CrudConns : PostCreate(r)
    \/ \E r \in CrudConns :
         PutArrive(r, PlainHeaders, Params, CrudTitles, Completeds,
                   UserIds \cup {NoUser})
    \/ \E r \in CrudConns : PutFindUnique(r)
    \/ \E r \in CrudConns : PutUpdate(r)
    \/ \E r \in CrudConns : DeleteArrive(r, PlainHeaders, Params)
    \/ \E r \in CrudConns : DeleteFindUnique(r)
    \/ \E r \in CrudConns : DeleteDelete(r)

SpecCrud == InitTodos /\ [][NextCrud]_vars


\* ------------------------------------------------ every route, one by one
\* From the empty database: accounts sign up and log in, and send what they
\* were given, or nothing, or garbage, to every todo route.
AppConns == {1}
AppEmails == Emails \cup {NoEmail}
AppPasswords == {"secret", ShortPassword, NoPassword}

NextApp ==
    \/ \E r \in AppConns : Retire(r)
    \/ \E r \in AppConns : SignupArrive(r, AppEmails, AppPasswords)
    \/ \E r \in AppConns : SignupFindUnique(r)
    \/ \E r \in AppConns : SignupCreate(r, GateSalts)
    \/ \E r \in AppConns : LoginArrive(r, AppEmails, AppPasswords)
    \/ \E r \in AppConns : LoginFindUnique(r)
    \/ \E r \in AppConns : ListArrive(r, PlainHeaders)
    \/ \E r \in AppConns : ListFindMany(r)
    \/ \E r \in AppConns : GetArrive(r, PlainHeaders, Params)
    \/ \E r \in AppConns : GetFindUnique(r)
    \/ \E r \in AppConns : PostArrive(r, PlainHeaders, CrudTitles, {NoUser})
    \/ \E r \in AppConns : PostCreate(r)
    \/ \E r \in AppConns :
         PutArrive(r, PlainHeaders, Params, CrudTitles, Completeds, {NoUser})
    \/ \E r \in AppConns : PutFindUnique(r)
    \/ \E r \in AppConns : PutUpdate(r)
    \/ \E r \in AppConns : DeleteArrive(r, PlainHeaders, Params)
    \/ \E r \in AppConns : DeleteFindUnique(r)
    \/ \E r \in AppConns : DeleteDelete(r)

SpecApp == Init /\ [][NextApp]_vars


\* ------------------------------------ a server started without JWT_SECRET
\* dotenv.config() finds no JWT_SECRET and the server starts all the same:
\* signup and login run with process.env.JWT_SECRET undefined.
NextNoSecret ==
    \/ \E r \in ReqIds : Retire(r)
    \/ \E r \in ReqIds : SignupArrive(r, Emails, GatePasswords)
    \/ \E r \in ReqIds : SignupFindUnique(r)
    \/ \E r \in ReqIds : SignupCreateWith(r, GateSalts, NoSecret)
    \/ \E r \in ReqIds : LoginArrive(r, Emails, GatePasswords)
    \/ \E r \in ReqIds : LoginFindUniqueWith(r, NoSecret)

SpecNoSecret == Init /\ [][NextNoSecret]_vars

\* ------------------------------------------- the frontend and its session
\* One page over one connection: signup and login through the Auth screen,
\* the session in the context and in localStorage, page refreshes, the
\* TodoList's fetch on mount, and the clock, so that a stored token expires.
FrontConns == {1}

NextFront ==
    \/ Tick
    \/ \E r \in FrontConns : ui.calls[r].kind = "none" /\ Retire(r)
    \/ \E r \in FrontConns :
         FreeCall(r) /\ SignupArrive(r, Emails, GatePasswords)
    \/ \E r \in FrontConns : SignupFindUnique(r)
    \/ \E r \in FrontConns : SignupCreate(r, GateSalts)
    \/ \E r \in FrontConns :
         FreeCall(r) /\ LoginArrive(r, Emails, GatePasswords)
    \/ \E r \in FrontConns : LoginFindUnique(r)
    \/ \E r \in FrontConns : ClientLogin(r)
    \/ ClientLogout
    \/ Reload
    \/ Mount
    \/ StorageEdit
    \/ \E r \in FrontConns : TodoListMount(r)
    \/ \E r \in FrontConns : FetchSend(r)
    \/ \E r \in FrontConns : ListFindMany(r)
    \/ \E r \in FrontConns : FetchSettle(r)

SpecFront == Init /\ [][NextFront]_vars

\* ------------------------------------------------- one TodoList at work
\* The first account is logged in on the page (its session is in the
\* context and in localStorage) and the TodoList is about to mount; its
\* handlers run over two connections, so two of them can be in flight.
InitList ==
    /\ users = << [email |-> EmailPool[1],
                   password |-> BcryptHash("secret", 1)],
                  [email |-> EmailPool[2],
                   password |-> BcryptHash("hunter22", 2)] >>
    /\ issued = {JwtSign(1, JWT_SECRET, 0), JwtSign(2, JWT_SECRET, 0)}
    /\ todos = {}
    /\ todoSeq = 0
    /\ now = 0
    /\ req = [r \in ReqIds |-> Idle]
    /\ session = [token |-> JwtSign(1, JWT_SECRET, 0),
                  user |-> [id |-> 1, email |-> EmailPool[1]]]
    /\ storage = [token |-> JwtSign(1, JWT_SECRET, 0),
                  user |-> JSONstringify([id |-> 1, email |-> EmailPool[1]])]
    /\ ui = NoUi

ListTitles == {<<"a">>, <<" ">>}

NextList ==
    \/ \E r \in ReqIds : TodoListMount(r)
    \/ \E r \in ReqIds : FetchSend(r)
    \/ \E r \in ReqIds : ListFindMany(r)
    \/ \E r \in ReqIds : FetchSettle(r)
    \/ \E r \in ReqIds : CreateCall(r, ListTitles)
    \/ \E r \in ReqIds : CreateSend(r)
    \/ \E r \in ReqIds : PostCreate(r)
    \/ \E r \in ReqIds : CreateSettle(r)
    \/ \E r \in ReqIds : ToggleCall(r)
    \/ \E r \in ReqIds : ToggleSend(r)
    \/ \E r \in ReqIds : PutFindUnique(r)
    \/ \E r \in ReqIds : PutUpdate(r)
    \/ \E r \in ReqIds : ToggleSettle(r)
    \/ \E r \in ReqIds : DeleteCall(r)
    \/ \E r \in ReqIds : DeleteSend(r)
    \/ \E r \in ReqIds : DeleteFindUnique(r)
    \/ \E r \in ReqIds : DeleteDelete(r)
    \/ \E r \in ReqIds : DeleteSettle(r)

SpecList == InitList /\ [][NextList]_vars

\* ====================================================================
\* Properties of the todo routes (SpecTodos)
\* ====================================================================
SingleOps == {"get", "put", "delete"}

\* Connection r takes the step that follows its findUnique.
LookupStep(r) ==
    /\ req[r].pc = "findUnique" /\ req[r].op \in SingleOps
    /\ req'[r] # req[r]

\* The row with this id in a todos table, NoTodo when none.
RowOf(table, id) ==
    IF \E t \in table : t.id = id THEN CHOOSE t \in table : t.id = id
    ELSE NoTodo

\* C1: a read-one, update or delete of a todo that another account owns is
\* answered 403 'Access denied' (500 when the lookup itself fails), the
\* response carries no todo, and the todos table is as it was.
C1_ForeignForbidden ==
    [][\A r \in ReqIds :
         (/\ LookupStep(r)
          /\ FindTodo(req[r].todoId) # NoTodo
          /\ FindTodo(req[r].todoId).userId # req[r].userId)
         => /\ req'[r].pc = "done"
            /\ req'[r].status \in {403, 500}
            /\ req'[r].status = 403 => req'[r].error = "Access denied"
            /\ req'[r].todo = NoTodo /\ req'[r].list = <<>>
            /\ todos' = todos]_vars

\* C1 witness: both connections hold an 'Access denied' answer, one to an
\* update and one to a delete, and the todos are still stored.
C1_Witness ==
    /\ \E r \in ReqIds : /\ req[r].pc = "done" /\ req[r].op = "put"
                         /\ req[r].status = 403
                         /\ req[r].error = "Access denied"
    /\ \E r \in ReqIds : /\ req[r].pc = "done" /\ req[r].op = "delete"
                         /\ req[r].status = 403
                         /\ req[r].error = "Access denied"
    /\ todos # {}

\* C2: in read-one, update and delete an id that names no row is answered
\* 404 whoever asks (500 when the lookup fails), and 'Access denied' is
\* answered only for a row that exists and has another owner.
C2_NotFoundBeforeForbidden ==
    [][\A r \in ReqIds :
         LookupStep(r)
         => /\ FindTodo(req[r].todoId) = NoTodo
               => /\ req'[r].pc = "done"
                  /\ req'[r].status \in {404, 500}
                  /\ req'[r].status = 404 => req'[r].error = "Todo not found"
            /\ (req'[r].pc = "done" /\ req'[r].status = 403)
               => /\ FindTodo(req[r].todoId) # NoTodo
                  /\ FindTodo(req[r].todoId).userId # req[r].userId]_vars

\* C2 witness: an update of an id with no row was answered 404 while a todo
\* of some account is stored.
C2_Witness ==
    /\ todos # {}
    /\ \E r \in ReqIds : /\ req[r].pc = "done" /\ req[r].op = "put"
                         /\ req[r].status = 404

\* C3: whenever the row of a todo id changes (it appears, its title or
\* completed flag changes, it disappears), the step is one of a request
\* whose principal is the owner of that row.
C3_OnlyOwnerChanges ==
    [][\A id \in TodoIds :
         RowOf(todos', id) # RowOf(todos, id)
         => \E r \in ReqIds :
              /\ req'[r] # req[r]
              /\ InFlight(r)
              /\ req[r].userId =
                   IF RowOf(todos, id) # NoTodo THEN RowOf(todos, id).userId
                   ELSE RowOf(todos', id).userId]_vars

\* C3 witness: a todo has been updated by its owner while a request of the
\* other account on the same table was answered 'Access denied'.
C3_Witness ==
    /\ \E r \in ReqIds : /\ req[r].pc = "done" /\ req[r].op = "put"
                         /\ req[r].status = 200
                         /\ req[r].todo.title = <<"b">>
                         /\ req[r].todo.completed
    /\ \E r \in ReqIds : /\ req[r].pc = "done" /\ req[r].status = 403
                         /\ req[r].error = "Access denied"

\* ====================================================================
\* Properties of the auth gate (SpecGate)
\* ====================================================================
TodoOps == {"list", "get", "post", "put", "delete"}

\* A request arrives on connection r.
ArrivalStep(r) == req[r].pc = "idle" /\ req'[r].pc # "idle"

\* The handler of a protected route is running on connection r.
Admitted(r) == InFlight(r) /\ req[r].op \in TodoOps

\* The gate itself has answered the request of connection r.
GateAnswered(r) ==
    /\ req[r].pc = "done" /\ req[r].op \in TodoOps
    /\ (~req[r].verified \/ req[r].verifyErr # "")

\* The header has tok right after its first space, followed by a space or
\* by nothing.
Carries(h, tok) ==
    /\ h.present
    /\ \E i \in 1..Len(h.chars) :
         /\ h.chars[i] = SP
         /\ \A j \in 1..(i - 1) : h.chars[j] # SP
         /\ i + 1 <= Len(h.chars)
         /\ h.chars[i + 1] = tok
         /\ (i + 1 = Len(h.chars) \/ h.chars[i + 2] = SP)

\* What the caller receives.
Response(rec) ==
    [status |-> rec.status, error |-> rec.error, message |-> rec.message,
     todo |-> rec.todo, list |-> rec.list, token |-> rec.token,
     user |-> rec.user]

\* C4: a request to a protected route reaches its handler exactly when its
\* header carries a token the server issued that has not expired, and then
\* req.userId is the userId of that token; otherwise the gate answers 401
\* or 403 itself, the handler never starts and no table changes.  Every
\* later step of a handler, its query included, belongs to a request the
\* gate verified, and works for the account of that request's token.
C4_HandlerBehindGate ==
    [][/\ \A r \in ReqIds :
         (ArrivalStep(r) /\ req'[r].op \in TodoOps)
         => IF \E tok \in issued : /\ Carries(req'[r].header, tok)
                                   /\ now < tok.payload.exp
            THEN /\ req'[r].verified /\ req'[r].verifyErr = ""
                 /\ req'[r].status \notin {401, 403}
                 /\ InFlight(r)'
                    => \E tok \in issued :
                         /\ Carries(req'[r].header, tok)
                         /\ req'[r].userId = tok.payload.userId
                         /\ req'[r].userId \in 1..Len(users)
            ELSE /\ req'[r].pc = "done"
                 /\ ~req'[r].verified \/ req'[r].verifyErr # ""
                 /\ req'[r].status \in {401, 403}
                 /\ req'[r].userId = NoUser
                 /\ todos' = todos /\ users' = users
       /\ \A r \in ReqIds :
            (Admitted(r) /\ req'[r] # req[r])
            => /\ req[r].verified /\ req[r].verifyErr = ""
               /\ \E tok \in issued :
                    /\ Carries(req[r].header, tok)
                    /\ req[r].userId = tok.payload.userId]_vars

\* C4 witness: the handler of the second account's request is running, and
\* the clock has moved since the first token was issued.
C4_Witness ==
    \E r \in ReqIds : /\ Admitted(r) /\ req[r].userId = 2
                      /\ req[r].pc = "findMany" /\ now > 0

\* C5: a protected route answers a request without Authorization header
\* with 401, and one with the header 'Bearer <garbage>' with that same code.
C5_GarbageLikeMissing ==
    \A r \in ReqIds :
      (GateAnswered(r) /\ req[r].header \in {NoHeader, BearerHeader(Garbage)})
      => req[r].status = 401

TwoTokenForm(h) ==
    /\ h.present /\ h.chars # <<>>
    /\ Cardinality({i \in 1..Len(h.chars) : h.chars[i] = SP}) = 1
    /\ h.chars[1] # SP /\ h.chars[Len(h.chars)] # SP

\* The header has a first space and a word right after it.
SecondSegmentNonEmpty(h) ==
    /\ h.present
    /\ \E i \in 1..Len(h.chars) :
         /\ h.chars[i] = SP
         /\ \A j \in 1..(i - 1) : h.chars[j] # SP
         /\ i + 1 <= Len(h.chars)
         /\ h.chars[i + 1] # SP

\* C7 as claimed: jwt.verify runs exactly for the headers of the two-token
\* form, every other header is answered 401 'Access token required'.
C7_OnlyTwoTokenFormVerified ==
    \A r \in ReqIds :
      (Admitted(r) \/ GateAnswered(r))
      => /\ req[r].verified <=> TwoTokenForm(req[r].header)
         /\ ~TwoTokenForm(req[r].header)
            => /\ req[r].status = 401
               /\ req[r].error = "Access token required"

\* C7 as amended: jwt.verify runs exactly for the headers with a non-empty
\* second space-separated segment (whatever follows it), every other header
\* is answered 401 'Access token required'.
C7_SecondSegmentVerified ==
    \A r \in ReqIds :
      (Admitted(r) \/ GateAnswered(r))
      => /\ req[r].verified <=> SecondSegmentNonEmpty(req[r].header)
         /\ ~SecondSegmentNonEmpty(req[r].header)
            => /\ req[r].pc = "done"
               /\ req[r].status = 401
               /\ req[r].error = "Access token required"

\* C7 witness: a header of three space-separated words was verified and
\* its request admitted.
C7_Witness ==
    \E r \in ReqIds : \E tok \in issued :
      /\ Admitted(r)
      /\ req[r].header = Header(<<Bearer, SP, tok, SP, Extra>>)

\* C8: at every request a token issued at iat is accepted while
\* now < iat + 24h and refused as expired (403) from now = iat + 24h on.
C8_ValidUntilExpiry ==
    [][\A r \in ReqIds : \A tok \in issued :
         (ArrivalStep(r) /\ req'[r].header = BearerHeader(tok))
         => IF now < tok.payload.iat + expiresIn
            THEN /\ Admitted(r)'
                 /\ req'[r].userId = tok.payload.userId
            ELSE /\ req'[r].pc = "done"
                 /\ req'[r].verifyErr = "jwt expired"
                 /\ req'[r].status = 403]_vars

\* C8 witness: an issued token is refused as expired at exactly iat + 24h.
C8_Witness ==
    \E r \in ReqIds : \E tok \in issued :
      /\ req[r].pc = "done" /\ req[r].verifyErr = "jwt expired"
      /\ req[r].header = BearerHeader(tok)
      /\ now = tok.payload.iat + expiresIn

\* C9: an issued token is admitted until its own expiry whatever tokens
\* were issued later and whatever the frontend's session is; no step takes
\* a token back; logout clears the frontend's state and localStorage and
\* leaves the server, its requests included, as it was.
C9_NoRevocation ==
    [][/\ \A r \in ReqIds : \A tok \in issued :
            (/\ ArrivalStep(r)
             /\ req'[r].header = BearerHeader(tok)
             /\ now < tok.payload.exp)
            => Admitted(r)'
       /\ issued \subseteq issued'
       /\ (session # NoSession /\ session' = NoSession)
          => /\ storage' = NoStorage
             /\ UNCHANGED server]_vars

\* C9 witness: the frontend holds no session and a request with an issued
\* token is admitted although a later token of that account exists.
C9_Witness ==
    /\ session = NoSession /\ storage = NoStorage
    /\ \E r \in ReqIds : \E tok, newer \in issued :
         /\ Admitted(r)
         /\ req[r].header = BearerHeader(tok)
         /\ newer.payload.userId = tok.payload.userId
         /\ newer.payload.iat > tok.payload.iat

\* ====================================================================
\* Properties of signup and login (SpecAuth)
\* ====================================================================
\* C10: a signup whose lookup finds an account with its email is answered
\* 400 'User already exists' (500 when the lookup fails), without token or
\* account, and the users table, password hashes included, is as it was.
C10_DuplicateSignup ==
    [][\A r \in ReqIds :
         (/\ req[r].pc = "findUnique" /\ req[r].op = "signup"
          /\ req'[r] # req[r]
          /\ FindUserByEmail(req[r].email) # NoUser)
         => /\ req'[r].pc = "done"
            /\ req'[r].status \in {400, 500}
            /\ req'[r].status = 400 => req'[r].error = "User already exists"
            /\ req'[r].token = NoToken /\ req'[r].user = NoAccount
            /\ users' = users /\ issued' = issued]_vars

\* C10 witness: a signup was answered 'User already exists'.
C10_Witness ==
    \E r \in ReqIds : /\ req[r].pc = "done" /\ req[r].op = "signup"
                      /\ req[r].status = 400
                      /\ req[r].error = "User already exists"
                      /\ users # <<>>

\* C11: of two signups with the same email that run concurrently, the one
\* whose create finds the email stored meanwhile is answered 400 'User
\* already exists'.
C11_RaceLoserAlreadyExists ==
    [][\A r \in ReqIds :
         (/\ req[r].pc = "create" /\ req[r].op = "signup"
          /\ req'[r].pc = "done"
          /\ FindUserByEmail(req[r].email) # NoUser)
         => /\ req'[r].status = 400
            /\ req'[r].error = "User already exists"]_vars

\* C12: no two stored accounts have the same email, upper and lower case
\* being different letters.
C12_EmailsUnique ==
    \A i, j \in 1..Len(users) :
      users[i].email = users[j].email => i = j

\* C12 witness: a signup that passed its lookup is about to create an
\* account whose email another signup has stored meanwhile, and the table
\* holds two emails that differ in case only.
C12_Witness ==
    /\ \E r \in ReqIds : /\ req[r].pc = "create" /\ req[r].op = "signup"
                         /\ FindUserByEmail(req[r].email) # NoUser
    /\ \E i, j \in 1..Len(users) :
         users[i].email = "a@x" /\ users[j].email = "A@x"

\* The stored account matching the credentials of record rec, NoUser
\* when the email has no account.
AccountOf(rec) == FindUserByEmail(rec.email)

\* C13: a login whose email has no account and a login whose email has
\* one but whose password is wrong receive the same response, 401
\* 'Invalid credentials' and nothing else (500 when the lookup fails).
C13_LoginFailuresAlike ==
    [][\A r \in ReqIds :
         (/\ req[r].pc = "findUnique" /\ req[r].op = "login"
          /\ req'[r].pc = "done"
          /\ \/ AccountOf(req[r]) = NoUser
             \/ ~BcryptCompare(req[r].password,
                               users[AccountOf(req[r])].password))
         => /\ req'[r].status \in {401, 500}
            /\ req'[r].status = 401
               => Response(req'[r]) =
                    Response([Idle EXCEPT !.status = 401,
                                          !.error = "Invalid credentials"])
            /\ issued' = issued]_vars

\* C13 witness: one login was refused for an email without account and
\* another for a wrong password of a stored account, with equal responses.
C13_Witness ==
    \E r1, r2 \in ReqIds :
      /\ req[r1].pc = "done" /\ req[r1].op = "login" /\ req[r1].status = 401
      /\ req[r2].pc = "done" /\ req[r2].op = "login" /\ req[r2].status = 401
      /\ AccountOf(req[r1]) = NoUser
      /\ AccountOf(req[r2]) # NoUser
      /\ ~BcryptCompare(req[r2].password,
                        users[AccountOf(req[r2])].password)
      /\ Response(req[r1]) = Response(req[r2])

\* C14: a signup whose email or password is absent or empty, or whose
\* password is shorter than 6, is answered 400 on arrival: no lookup, no
\* hash and no create follow and nothing is stored; every other signup,
\* one with a password of exactly 6 included, goes on to the lookup.
C14_SignupValidation ==
    [][\A r \in ReqIds :
         (ArrivalStep(r) /\ req'[r].op = "signup")
         => IF \/ req'[r].email = NoEmail
               \/ req'[r].password = NoPassword
               \/ Len(req'[r].password) < minPasswordLength
            THEN /\ req'[r].pc = "done"
                 /\ req'[r].status = 400
                 /\ req'[r].token = NoToken /\ req'[r].user = NoAccount
                 /\ users' = users /\ issued' = issued
            ELSE req'[r].pc = "findUnique"]_vars

\* C14 witness: a signup with a password of 5 was answered 400 while one
\* with a password of 6 awaits its lookup.
C14_Witness ==
    \E r1, r2 \in ReqIds :
      /\ req[r1].pc = "done" /\ req[r1].op = "signup" /\ req[r1].status = 400
      /\ req[r1].email # NoEmail
      /\ Len(req[r1].password) = minPasswordLength - 1
      /\ req[r2].pc = "findUnique" /\ req[r2].op = "signup"
      /\ Len(req[r2].password) = minPasswordLength

\* ====================================================================
\* Properties of signup followed by login (SpecRoundTrip)
\* ====================================================================
\* Connection s holds the answer of a successful signup or login.
Granted(s) ==
    /\ req[s].pc = "done" /\ req[s].op \in {"signup", "login"}
    /\ req[s].status \in {200, 201}

\* C15: once signup(e, p) has succeeded, a login(e, q) that the server
\* answers succeeds exactly when q = p, and then returns the id and email
\* the signup returned; the token of a successful signup or login, sent to
\* a protected route, is admitted for that account id.
C15_LoginIffSamePassword ==
    [][/\ \A r, s \in ReqIds :
            (/\ req[r].pc = "findUnique" /\ req[r].op = "login"
             /\ req'[r].pc = "done" /\ req'[r].status # 500
             /\ Granted(s) /\ req[s].op = "signup"
             /\ req[s].email = req[r].email)
            => /\ req'[r].status = 200 <=> req[r].password = req[s].password
               /\ req'[r].status = 200 => req'[r].user = req[s].user
       /\ \A r, s \in ReqIds :
            (/\ ArrivalStep(r) /\ req'[r].op \in TodoOps
             /\ Granted(s)
             /\ req'[r].header = BearerHeader(req[s].token))
            => /\ Admitted(r)'
               /\ req'[r].userId = req[s].user.id]_vars

\* ====================================================================
\* Properties of the todo routes, request by request (SpecCrud)
\* ====================================================================
\* The gate has let the request of connection r through.
PassedGate(rec) == rec.op \in TodoOps /\ rec.verified /\ rec.verifyErr = ""

\* Every character of s is white space.
Blank(s) == \A i \in 1..Len(s) : s[i] = " "

\* t is raw without the white space at its two ends.
TrimmedFrom(t, raw) ==
    \E i, j \in 1..Len(raw) :
      /\ i <= j /\ raw[i] # " " /\ raw[j] # " "
      /\ \A k \in 1..(i - 1) : raw[k] = " "
      /\ \A k \in (j + 1)..Len(raw) : raw[k] = " "
      /\ t = SubSeq(raw, i, j)

\* C16: a create with a title (a string, or absent) that is absent or
\* empty after trimming is answered 400 on arrival and stores nothing; any
\* other goes on to one insert, which (unless storage fails: 500, nothing
\* stored) adds exactly one todo with an id never handed out before, the
\* account of the request's token as owner whatever userId the body names,
\* completed = false and the trimmed title, and returns it with 201.
C16_CreateTodo ==
    [][\A r \in ReqIds :
         /\ (/\ ArrivalStep(r) /\ req'[r].op = "post" /\ PassedGate(req'[r])
             /\ req'[r].title.type \in {"undefined", "string"})
            => /\ todos' = todos /\ todoSeq' = todoSeq
               /\ IF req'[r].title = Undefined \/ Blank(req'[r].title.chars)
                  THEN req'[r].pc = "done" /\ req'[r].status = 400
                  ELSE req'[r].pc = "create"
         /\ (req[r].pc = "create" /\ req[r].op = "post" /\ req'[r] # req[r])
            => /\ req'[r].pc = "done"
               /\ req'[r].status \in {201, 500}
               /\ req'[r].status = 500 => todos' = todos
               /\ req'[r].status = 201
                  => \E t \in todos' :
                       /\ todos' = todos \cup {t}
                       /\ \A old \in todos : old.id # t.id
                       /\ t.id > todoSeq
                       /\ t.completed = FALSE
                       /\ TrimmedFrom(t.title, req[r].title.chars)
                       /\ \E tok \in issued :
                            /\ Carries(req[r].header, tok)
                            /\ t.userId = tok.payload.userId
                       /\ req'[r].todo = t]_vars

\* C16 witness: a todo was created from a title with white space at its
\* end and a body naming another account as owner.
C16_Witness ==
    \E r \in ReqIds :
      /\ req[r].pc = "done" /\ req[r].op = "post" /\ req[r].status = 201
      /\ req[r].title = Str(<<"a", " ", "b", " ">>)
      /\ req[r].todo.title = <<"a", " ", "b">>
      /\ req[r].bodyUserId \notin {NoUser, req[r].todo.userId}
      /\ req[r].todo \in todos

C19_ListOwnNewestFirst ==
    [][\A r \in ReqIds :
         (/\ req[r].pc = "findMany" /\ req[r].op = "list"
          /\ req'[r].pc = "done" /\ req'[r].status = 200)
         => LET list == req'[r].list
            IN  /\ \E tok \in issued :
                     /\ Carries(req[r].header, tok)
                     /\ {list[i] : i \in 1..Len(list)} =
                          {t \in todos : t.userId = tok.payload.userId}
                /\ \A i, j \in 1..Len(list) : list[i] = list[j] => i = j
                /\ \A i, j \in 1..Len(list) :
                     i < j => list[i].createdAt >= list[j].createdAt
                /\ todos' = todos]_vars

\* C19 witness: a list of two todos, the later created first, was returned.
C19_Witness ==
    \E r \in ReqIds :
      /\ req[r].pc = "done" /\ req[r].op = "list" /\ req[r].status = 200
      /\ Len(req[r].list) = 2
      /\ req[r].list[1].createdAt > req[r].list[2].createdAt
      /\ req[r].list[1].id > req[r].list[2].id

\* C20: every stored todo has one owner, an account, and no two todos
\* share an id; a todo enters the table only through a create, owned by the
\* account of that request's token; every other todo of the table was there
\* before the step with the same id and the same owner, whatever the body
\* of an update names as userId.
C20_OwnerNeverChanges ==
    [][/\ \A t \in todos' : t.userId \in 1..Len(users')
       /\ \A t1, t2 \in todos' : t1.id = t2.id => t1 = t2
       /\ \A t \in todos' :
            \/ \E old \in todos : /\ old.id = t.id
                                  /\ old.userId = t.userId
                                  /\ old.createdAt = t.createdAt
            \/ \E r \in ReqIds :
                 /\ req[r].pc = "create" /\ req[r].op = "post"
                 /\ req'[r].pc = "done" /\ req'[r].todo = t
                 /\ \A old \in todos : old.id # t.id
                 /\ \E tok \in issued :
                      /\ Carries(req[r].header, tok)
                      /\ t.userId = tok.payload.userId]_vars

\* C20 witness: an update whose body names the other account as userId has
\* succeeded, and the todo still belongs to the account that created it.
C20_Witness ==
    \E r \in ReqIds :
      /\ req[r].pc = "done" /\ req[r].op = "put" /\ req[r].status = 200
      /\ req[r].bodyUserId \notin {NoUser, req[r].userId}
      /\ req[r].todo \in todos
      /\ req[r].todo.userId = req[r].userId

\* ====================================================================
\* Properties of the todo routes under interleaving (SpecTodos), continued
\* ====================================================================
\* The id was handed out and no stored todo has it: its todo was deleted.
Deleted(id) == id \in 1..todoSeq /\ \A t \in todos : t.id # id

\* C18: a delete that succeeds removes the one todo with the id of the
\* request, owned by the requester, and no other; from then on the id stays
\* without todo (no create hands it out again) and every read-one, update
\* or delete that looks it up, whoever asks, is answered 404 'Todo not
\* found' (500 when the lookup itself fails).
C18_DeletedStaysDeleted ==
    [][/\ \A r \in ReqIds :
            (/\ req[r].pc = "delete" /\ req[r].op = "delete"
             /\ req'[r].pc = "done" /\ req'[r].status = 200)
            => \E row \in todos :
                 /\ row.id = req[r].todoId /\ row.userId = req[r].userId
                 /\ todos' = todos \ {row}
                 /\ Deleted(row.id)'
       /\ \A r \in ReqIds :
            (LookupStep(r) /\ Deleted(req[r].todoId))
            => /\ req'[r].pc = "done"
               /\ req'[r].status \in {404, 500}
               /\ req'[r].status = 404 => req'[r].error = "Todo not found"
               /\ req'[r].todo = NoTodo
               /\ todos' = todos
       /\ \A id \in TodoIds : Deleted(id) => Deleted(id)'
       /\ \A t \in todos' : (\A old \in todos : old.id # t.id)
                             => t.id > todoSeq]_vars

\* C18 witness: the first todo was deleted, a later create was given the
\* next id, and both accounts were answered 404 for the deleted id.
C18_Witness ==
    /\ Deleted(1)
    /\ \E t \in todos : t.id = 2
    /\ \E r1, r2 \in ReqIds :
         /\ req[r1].pc = "done" /\ req[r1].status = 404
         /\ req[r2].pc = "done" /\ req[r2].status = 404
         /\ req[r1].op \in SingleOps /\ req[r2].op \in SingleOps
         /\ req[r1].todoId = 1 /\ req[r2].todoId = 1
         /\ req[r1].userId = 1 /\ req[r2].userId = 2

GenericMessage ==
    [signup |-> "Something went wrong during signup",
     login  |-> "Something went wrong during login",
     list   |-> "Failed to fetch todos",
     get    |-> "Failed to fetch todo",
     post   |-> "Failed to create todo",
     put    |-> "Failed to update todo",
     delete |-> "Failed to delete todo"]

\* C22: a request whose step fails is answered in that very step, with
\* 500 and the fixed text of its handler and nothing else, whatever the
\* error was; the failed step has written nothing and is not taken again.
C22_FailureAnsweredGenerically ==
    [][\A r \in ReqIds :
         (req'[r] # req[r] /\ req'[r].pc = "done" /\ req'[r].status = 500)
         => /\ req[r].pc # "done"
            /\ Response(req'[r]) =
                 Response([Idle EXCEPT
                             !.status = 500,
                             !.error = GenericMessage[req'[r].op]])
            /\ users' = users /\ todos' = todos /\ issued' = issued]_vars

\* C22 witness: a delete by the owner failed and the todo is still stored.
C22_Witness ==
    \E r \in ReqIds :
      /\ req[r].pc = "done" /\ req[r].op = "delete" /\ req[r].status = 500
      /\ req[r].error = "Failed to delete todo"
      /\ FindTodo(req[r].todoId) # NoTodo
      /\ FindTodo(req[r].todoId).userId = req[r].userId

\* ====================================================================
\* Properties of the frontend (SpecFront)
\* ====================================================================
\* C23: when the answer to the TodoList's todo request is 401 or 403, the
\* step that receives it clears the session (token and user null) and the
\* Auth screen is shown instead of the TodoList.
C23_RejectionClearsSession ==
    [][\A r \in ReqIds :
         (/\ ui.calls[r].kind = "fetch"
          /\ req[r].pc = "done" /\ req[r].op = "list"
          /\ req[r].status \in {401, 403}
          /\ req'[r].pc = "idle")
         => /\ session' = NoSession
            /\ Screen' = "Auth"]_vars

\* The steps of the session's life: login() from the Auth screen, the mount
\* effect of a freshly constructed AuthProvider, logout().
LoginStep == ~ui.loading /\ session' # session /\ session'.user # NoAccount
MountStep == ui.loading /\ ui' # ui
LogoutStep ==
    ~ui.loading /\ ~ui'.loading /\ session # NoSession /\ session' = NoSession

\* What the mount effect does with a stored session, with nothing stored,
\* and what logout leaves.
RestoresStored ==
    (storage.token # NoToken /\ JSONparses(storage.user))
    => /\ session' = [token |-> storage.token,
                      user |-> JSONparse(storage.user)]
       /\ storage' = storage
RestoresNothing ==
    storage = NoStorage => (session' = NoSession /\ storage' = NoStorage)
LoginStores ==
    /\ storage'.token = session'.token
    /\ JSONparses(storage'.user)
    /\ JSONparse(storage'.user) = session'.user
    /\ \E r \in ReqIds :
         req[r].token = session'.token /\ req[r].user = session'.user

\* C24 as stated: login stores a session from which the mount effect
\* restores exactly that token and user, every mount ends with loading
\* false, logout leaves context and localStorage without a session and a
\* mount then restores none, and any stored 'user' text that is not valid
\* JSON makes the mount remove both keys and restore nothing.
C24_AnyBrokenUserRemoved ==
    [][/\ LoginStep => LoginStores
       /\ MountStep
          => /\ ~ui'.loading
             /\ RestoresStored
             /\ RestoresNothing
             /\ (storage.user # NoItem /\ ~JSONparses(storage.user))
                => (session' = NoSession /\ storage' = NoStorage)
       /\ LogoutStep => storage' = NoStorage]_vars

\* C24, amended: the same, the last part for a 'user' text stored next to
\* a 'token': when the 'token' key is absent the mount effect reads no
\* further and the text stays.
C24_SessionRoundTrip ==
    [][/\ LoginStep => LoginStores
       /\ MountStep
          => /\ ~ui'.loading
             /\ RestoresStored
             /\ RestoresNothing
             /\ (storage.token # NoToken /\ storage.user # NoItem
                   /\ ~JSONparses(storage.user))
                => (session' = NoSession /\ storage' = NoStorage)
       /\ LogoutStep => storage' = NoStorage]_vars

\* C24 witness: the page has been refreshed after a login, the session the
\* login wrote is in localStorage and the mount effect is about to read it.
C24_Witness ==
    /\ ui.loading /\ session = NoSession
    /\ storage.token \in issued
    /\ JSONparses(storage.user)
    /\ JSONparse(storage.user).id = storage.token.payload.userId

\* ====================================================================
\* Properties of every backend route (SpecApp)
\* ====================================================================
\* A title that is not a non-blank string.
BadTitle(title) == title.type # "string" \/ Blank(title.chars)

\* The request a connection has just received has a missing or malformed
\* field: no email or no password, a signup password under the minimum
\* length, a create without a non-blank string title, an update whose
\* title is given but is not a non-blank string, an id that is no number.
Malformed(rec) ==
    \/ /\ rec.op \in {"signup", "login"}
       /\ (rec.email = NoEmail \/ rec.password = NoPassword)
    \/ rec.op = "signup" /\ Len(rec.password) < minPasswordLength
    \/ rec.op = "post" /\ PassedGate(rec) /\ BadTitle(rec.title)
    \/ /\ rec.op = "put" /\ PassedGate(rec)
       /\ rec.title # Undefined /\ BadTitle(rec.title)
    \/ rec.op \in SingleOps /\ PassedGate(rec) /\ rec.todoId = NaN

\* C25: a request with a missing or malformed field is answered 400 in the
\* step in which it arrives, before the handler has issued any query.
C25_MalformedRejectedOnArrival ==
    [][\A r \in ReqIds :
         (ArrivalStep(r) /\ Malformed(req'[r]))
         => (req'[r].pc = "done" /\ req'[r].status = 400)]_vars

\* C27: a step that answers a request with a 4xx status leaves the users
\* table, the todos table and the id sequence as they were, and no earlier
\* step of such a request has written either: the only steps that change
\* a table are steps that answer their request 200 or 201.
C27_ClientErrorsChangeNothing ==
    [][/\ \A r \in ReqIds :
            (/\ req'[r] # req[r] /\ req'[r].pc = "done"
             /\ req'[r].status \in 400..499)
            => (users' = users /\ todos' = todos /\ todoSeq' = todoSeq)
       /\ (users' # users \/ todos' # todos)
          => \E r \in ReqIds :
               /\ req'[r] # req[r] /\ req'[r].pc = "done"
               /\ req'[r].status \in {200, 201}]_vars

\* C27 witness: an update or delete of another account's todo has been
\* answered 403 by the ownership check and the todo is stored as before.
C27_Witness ==
    \E r \in ReqIds :
      /\ req[r].pc = "done" /\ req[r].op \in {"put", "delete"}
      /\ PassedGate(req[r]) /\ req[r].status = 403
      /\ \E t \in todos : t.id = req[r].todoId /\ t.userId # req[r].userId

\* ====================================================================
\* Properties of racing todo requests (SpecTodos)
\* ====================================================================
\* Connection r takes its write step (update or delete) after the todo it
\* looked up and found has been deleted by another request.
WriteAfterDelete(r) ==
    /\ req[r].pc \in {"update", "delete"} /\ req[r].op \in {"put", "delete"}
    /\ FindTodo(req[r].todoId) = NoTodo
    /\ req'[r] # req[r]

\* C26: an update or delete whose todo was deleted by another request
\* between its lookup and its write is answered 404, never 500.
C26_RaceLoserNotFound ==
    [][\A r \in ReqIds :
         WriteAfterDelete(r)
         => (req'[r].pc = "done" /\ req'[r].status = 404)]_vars

\* ====================================================================
\* Properties of the stored todos (SpecCrud)
\* ====================================================================
\* C28: every stored todo has a title that is not empty and has no white
\* space at its ends.
C28_TitlesNonEmptyTrimmed ==
    \A t \in todos : t.title # <<>> /\ Trim(t.title) = t.title

\* ====================================================================
\* Properties of signup on a server without JWT_SECRET (SpecNoSecret)
\* ====================================================================
\* C29: a signup answered 400 or 500 has added no account: the step that
\* sends the error leaves the users table as it was, and every stored
\* account was stored by a step that answered its signup 201 with a token.
C29_FailedSignupAddsNothing ==
    [][/\ \A r \in ReqIds :
            (/\ req'[r] # req[r] /\ req'[r].op = "signup"
             /\ req'[r].pc = "done" /\ req'[r].status \in {400, 500})
            => users' = users
       /\ users' # users
          => \E r \in ReqIds :
               /\ req'[r] # req[r] /\ req'[r].op = "signup"
               /\ req'[r].status = 201 /\ req'[r].token # NoToken]_vars

\* ====================================================================
\* Properties of the TodoList (SpecList)
\* ====================================================================
\* Every handler of the TodoList has completed and the list is shown.
Settled ==
    /\ Rendered
    /\ \A r \in ReqIds : ui.calls[r].kind = "none" /\ req[r].pc = "idle"

\* C30: once every create, toggle and delete of the TodoList has completed,
\* its todos are exactly the todos the server stores for the user, each
\* once and with the server's completed flag.
C30_ListMatchesServer ==
    Settled
    => /\ Shown(ui.todos) = {t \in todos : t.userId = session.user.id}
       /\ Len(ui.todos) = Cardinality(Shown(ui.todos))

====
